---- MODULE Spec2Model ----
(***************************************************************************)
(* A model of the match-processing pipeline of zoom-eventbrite-app:        *)
(* the submit/poll endpoints (routes/api.py), the background worker        *)
(* process_matches_background (app_prod.py), the YouTube duplicate check   *)
(* with its cache (services/youtube_service.py, models.py) and the Zoom    *)
(* calls the worker makes (services/zoom_service.py).                      *)
(*                                                                         *)
(* Strings are sequences of one-character strings, so that title           *)
(* normalisation is computed character by character as the code does.      *)
(* The worker is a thread: it is cut into one action per write to the      *)
(* shared processing_status table, so that a poll can run between any two  *)
(* writes, as it can in the program.                                       *)
(***************************************************************************)
EXTENDS Integers, Sequences, FiniteSets, TLC

(***************************************************************************)
(* Bounds of the model.                                                    *)
(***************************************************************************)
MaxRuns == 1
MaxMatches == 2
MaxTicks == 2

(***************************************************************************)
(* Program constants.                                                      *)
(***************************************************************************)
\* init_db's default for youtube_cache_hours, read by check_existing_video
youtube_cache_hours == 24
\* chunk_size = timedelta(days=30) of get_recordings, in days
chunk_size == 30
\* the clock of the model advances in steps of this many hours
TickHours == 18

(***************************************************************************)
(* Title normalisation: YouTubeVideo.normalize_title.                      *)
(***************************************************************************)
UpperChars == {"A", "B", "U"}
LowerChars == {"a", "b", "u", "n", "t", "i", "l", "e", "d"}
DigitChars == {"1"}
SpaceChars == {" ", "\t"}

\* str.lower() on one character
Lower(c) ==
  CASE c = "A" -> "a"
    [] c = "B" -> "b"
    [] c = "U" -> "u"
    [] OTHER -> c

LowerStr(s) == [k \in 1..Len(s) |-> Lower(s[k])]

\* \w of Python's re: letters, digits and the underscore
IsWord(c) == c \in UpperChars \cup LowerChars \cup DigitChars \cup {"_"}
\* \s of Python's re
IsSpace(c) == c \in SpaceChars

\* re.sub(r'[^\w\s]', '', s)
IsKept(c) == IsWord(c) \/ IsSpace(c)
RemoveSpecial(s) == SelectSeq(s, IsKept)

\* re.sub(r'\s+', ' ', s)
RECURSIVE CollapseSpace(_)
CollapseSpace(s) ==
  IF s = <<>> THEN <<>>
  ELSE IF IsSpace(Head(s))
       THEN IF Len(s) > 1 /\ IsSpace(s[2])
            THEN CollapseSpace(Tail(s))
            ELSE <<" ">> \o CollapseSpace(Tail(s))
       ELSE <<Head(s)>> \o CollapseSpace(Tail(s))

\* str.strip()
RECURSIVE LStrip(_)
LStrip(s) ==
  IF s # <<>> /\ IsSpace(Head(s)) THEN LStrip(Tail(s)) ELSE s

RECURSIVE RStrip(_)
RStrip(s) ==
  IF s # <<>> /\ IsSpace(s[Len(s)]) THEN RStrip(SubSeq(s, 1, Len(s) - 1)) ELSE s

Strip(s) == RStrip(LStrip(s))

\* normalize_title stripping first: strip, then the two substitutions
normalize_title_stripfirst(title) ==
  IF title = <<>> THEN <<>>
  ELSE CollapseSpace(RemoveSpecial(Strip(LowerStr(title))))

normalize_title(title) ==
  IF title = <<>> THEN <<>>
  ELSE Strip(CollapseSpace(RemoveSpecial(LowerStr(title))))


(***************************************************************************)
(* Data: titles, matches, recording files, log messages.                   *)
(***************************************************************************)
Runs == 1..MaxRuns

\* event titles an operator can submit; it has the normalised key of the
\* title <<"a">> of the video already on the channel
TitleSet == { <<"A", "!">> }

\* the default of eventbrite_event.get('name', {}).get('text', 'Untitled')
Untitled == <<"U", "n", "t", "i", "t", "l", "e", "d">>

\* a confirmed match as the worker reads it: 'zoom_meeting' may be missing
\* (KeyError at match['zoom_meeting']), the event may have no name
MatchValues ==
  [ has_meeting : {TRUE}, has_name : {TRUE}, name : TitleSet ]
    \cup { [ has_meeting |-> TRUE, has_name |-> FALSE, name |-> <<>> ],
           [ has_meeting |-> FALSE, has_name |-> FALSE, name |-> <<>> ] }

RECURSIVE SeqsUpTo(_, _)
SeqsUpTo(S, n) ==
  IF n = 0 THEN { <<>> }
  ELSE LET shorter == SeqsUpTo(S, n - 1)
       IN  shorter \cup { Append(q, x) : q \in {p \in shorter : Len(p) = n - 1}, x \in S }

\* request bodies of POST /process_matches
MatchLists == SeqsUpTo(MatchValues, MaxMatches)

\* event_title of process_matches_background
EventTitle(m) == IF m.has_name THEN m.name ELSE Untitled

\* recording files Zoom can list for a meeting
FileTypes == {"MP4", "mp4", "M4A"}
FileLists ==
  { <<>> } \cup { << [id |-> 1, file_type |-> a] >> : a \in FileTypes }
           \cup { << [id |-> 1, file_type |-> a], [id |-> 2, file_type |-> b] >> :
                    a \in FileTypes, b \in FileTypes }
NoFile == [id |-> 0, file_type |-> ""]

\* rec_file.get('file_type', '').upper() == 'MP4'
IsMP4(f) == f.file_type \in {"MP4", "mp4"}

\* the for loop without its break: the last MP4 of the list
RECURSIVE FirstMP4_last(_)
FirstMP4_last(files) ==
  IF files = <<>> THEN NoFile
  ELSE IF IsMP4(files[Len(files)]) THEN files[Len(files)]
       ELSE FirstMP4_last(SubSeq(files, 1, Len(files) - 1))

\* the for loop that finds the video file: the first MP4 of the list
RECURSIVE FirstMP4(_)
FirstMP4(files) ==
  IF files = <<>> THEN NoFile
  ELSE IF IsMP4(Head(files)) THEN Head(files) ELSE FirstMP4(Tail(files))

\* a progress message: its kind, the event title, and the identifier or
\* error text it carries
Msg(kind, title, detail) == <<kind, title, detail>>

VidName(n) == "v" \o ToString(n)

\* the entry of processing_status, and what a poll of a missing id returns
NewEntry(total) ==
  [status |-> "processing", current |-> 0, total |-> total, messages |-> <<>>]
NotFound == [status |-> "not_found"]

VARIABLES
  processing_status,  \* app_prod.processing_status: session id -> entry
  matches,            \* the matches argument of each worker thread
  pc,                 \* where each worker thread stands
  idx,                \* i of the for loop
  youtube_available,  \* the worker's local of that name
  video_file,         \* the worker's local of that name
  recording_files,    \* the worker's local of that name: the files listed
  exc,                \* the exception being handled by the except clause
  cache,              \* the youtube_videos table, in rowid order
  service,            \* YouTubeService.service is set
  credsValid,         \* usable YouTube credentials are on disk
  remote,             \* the videos on the YouTube channel
  nextVid,            \* number of videos uploaded so far
  now,                \* datetime.utcnow(), in hours
  CHECK_EXISTING_VIDEOS, \* the configuration flag
  lastPoll,           \* the result of the last poll of each session id
  submit_result,      \* the response of the last POST /process_matches
  ops,                \* the remote operations each worker has made, in order
  events_pc,          \* where the handler of GET /events stands
  events,             \* its local of that name: the events being annotated
  events_i,           \* how many of them have been annotated
  eventbrite_call,    \* its call of Eventbrite: the date passed, how it ended
  events_result,      \* the response of the last GET /events
  norm_pc,            \* whether normalize_title has been called
  norm_in,            \* the title given to normalize_title
  norm_out,           \* what normalize_title returned for it
  cv_pc,              \* where each call of _cache_video stands
  youtube_item,       \* its argument: the id and the title of the snippet
  existing,           \* its local of that name: the row found, 0 for None
  cv_log,             \* the calls that have ended, in the order they ended
  gr_pc,              \* where the call of get_recordings stands
  start_dt,           \* its locals of these names, in days
  end_dt,
  current_date,
  recordings,         \* its local of that name: the list it returns
  zoom_queries        \* the from/to pairs it has sent to Zoom, in order

vars == << processing_status, matches, pc, idx, youtube_available, video_file,
          recording_files,
           exc, cache, service, credsValid, remote, nextVid, now,
           CHECK_EXISTING_VIDEOS, lastPoll, submit_result, ops,
           events_pc, events, events_i, eventbrite_call, events_result,
           norm_pc, norm_in, norm_out,
           cv_pc, youtube_item, existing, cv_log,
           gr_pc, start_dt, end_dt, current_date, recordings, zoom_queries >>

workerVars == << matches, pc, idx, youtube_available, video_file,
                recording_files, exc >>
youtubeVars == << cache, service, remote, nextVid >>
envVars == << credsValid, now, CHECK_EXISTING_VIDEOS >>
eventVars == << events_pc, events, events_i, eventbrite_call, events_result >>
normVars == << norm_pc, norm_in, norm_out >>
storeVars == << cv_pc, youtube_item, existing, cv_log >>
recVars == << gr_pc, start_dt, end_dt, current_date, recordings, zoom_queries >>
jobVars == << processing_status, workerVars, lastPoll, submit_result, ops >>


(***************************************************************************)
(* YouTubeService: the cache table and the duplicate check.                *)
(***************************************************************************)
NoVideo == [video_id |-> "", title |-> <<>>, cached |-> FALSE]

\* YouTubeVideo.query.filter_by(title_normalized=...).first(): 0 if no row
FirstByNorm(c, n) ==
  LET S == { k \in 1..Len(c) : c[k].title_normalized = n }
  IN  IF S = {} THEN 0 ELSE CHOOSE k \in S : \A j \in S : k <= j

\* YouTubeVideo.query.filter_by(youtube_video_id=...).first(): 0 if no row
FirstById(c, vid) ==
  LET S == { k \in 1..Len(c) : c[k].youtube_video_id = vid }
  IN  IF S = {} THEN 0 ELSE CHOOSE k \in S : \A j \in S : k <= j

\* IsFresh with the comparison turned round
\* IsFresh without the age: a row, once written, is used for ever
IsFresh_always(row, t) == TRUE

\* IsFresh with the comparison turned round
IsFresh_reversed(row, t) == t > row.last_updated + youtube_cache_hours

\* datetime.utcnow() < cached_video.last_updated + timedelta(hours=cache_hours)
IsFresh(row, t) == t < row.last_updated + youtube_cache_hours

\* _cache_video when the commit succeeds: update the row of that id, or add one
Upsert(c, vid, title, t) ==
  LET k == FirstById(c, vid)
  IN  IF k # 0
      THEN [c EXCEPT ![k] = [@ EXCEPT !.title = title,
                                      !.title_normalized = normalize_title(title),
                                      !.last_updated = t]]
      ELSE Append(c, [youtube_video_id |-> vid, title |-> title,
                      title_normalized |-> normalize_title(title),
                      last_updated |-> t])

\* _cache_video: the table after it; a database error is logged and rolled back
CacheVideo(c, vid, title, t) == { Upsert(c, vid, title, t), c }

\* get_service: whether a service is returned (self.service, or built from
\* valid credentials and then kept in self.service)
GetService(svc) == svc \/ credsValid

\* SearchYouTube taking the first item of the answer, whatever its title
SearchYouTube_any(title, svc) ==
  IF ~GetService(svc)
  THEN { [raised |-> FALSE, video |-> NoVideo, cache |-> cache, service |-> svc,
            searched |-> FALSE] }
  ELSE { [raised |-> FALSE, video |-> NoVideo, cache |-> cache, service |-> TRUE,
            searched |-> TRUE] }
       \cup
       UNION { { [raised |-> FALSE,
                  video |-> [video_id |-> v.video_id, title |-> v.title,
                             cached |-> FALSE],
                  cache |-> c2, service |-> TRUE, searched |-> TRUE] :
                   c2 \in CacheVideo(cache, v.video_id, v.title, now) } :
               v \in remote }

\* _search_youtube_for_title: the video returned (NoVideo for None) with the
\* table and self.service after it. The search can fail or return any list
\* of the channel's videos; the first item whose normalised title is equal
\* is cached and returned.
SearchYouTube(title, svc) ==
  IF ~GetService(svc)
  THEN { [raised |-> FALSE, video |-> NoVideo, cache |-> cache, service |-> svc,
            searched |-> FALSE] }
  ELSE { [raised |-> FALSE, video |-> NoVideo, cache |-> cache, service |-> TRUE,
            searched |-> TRUE] }
       \cup
       UNION { { [raised |-> FALSE,
                  video |-> [video_id |-> v.video_id, title |-> v.title,
                             cached |-> FALSE],
                  cache |-> c2, service |-> TRUE, searched |-> TRUE] :
                   c2 \in CacheVideo(cache, v.video_id, v.title, now) } :
               v \in { w \in remote :
                         normalize_title(w.title) = normalize_title(title) } }

\* check_existing_video: its outcomes. The two queries run outside any try,
\* so a database error is raised to the caller.
CheckExisting(title, svc) ==
  IF ~CHECK_EXISTING_VIDEOS
  THEN { [raised |-> FALSE, video |-> NoVideo, cache |-> cache, service |-> svc,
            searched |-> FALSE] }
  ELSE { [raised |-> TRUE, video |-> NoVideo, cache |-> cache, service |-> svc,
            searched |-> FALSE] }
       \cup
       LET k == FirstByNorm(cache, normalize_title(title))
       IN  IF k # 0 /\ IsFresh(cache[k], now)
           THEN { [raised |-> FALSE,
                   video |-> [video_id |-> cache[k].youtube_video_id,
                              title |-> cache[k].title, cached |-> TRUE],
                   cache |-> cache, service |-> svc, searched |-> FALSE] }
           ELSE SearchYouTube(title, svc)

\* how a duplicate check ended: an exception, the cached row, a video found
\* by the search, nothing found by the search, or nothing and no search made
CheckRes(co) ==
  IF co.raised THEN "raised"
  ELSE IF co.video # NoVideo THEN (IF co.video.cached THEN "cached" ELSE "remote")
  ELSE IF co.searched THEN "none"
  ELSE "nosearch"

\* upload_video with check_existing=False: a video found is no obstacle
UploadVideo_unchecked(title) ==
  LET fail(co, err, sent) ==
        [raised |-> FALSE, success |-> FALSE, video_id |-> "", error |-> err,
         sent |-> sent, cache |-> co.cache, service |-> co.service,
         remote |-> remote, nextVid |-> nextVid, check |-> CheckRes(co)]
      outcomes(co) ==
        IF co.raised
        THEN { [raised |-> TRUE, success |-> FALSE, video_id |-> "", error |-> "",
                sent |-> FALSE, cache |-> co.cache, service |-> co.service,
                remote |-> remote, nextVid |-> nextVid, check |-> "raised"] }
        ELSE IF ~GetService(co.service)
        THEN { fail(co, "YouTube service not available", FALSE) }
        ELSE { fail([co EXCEPT !.service = TRUE], e, TRUE) :
                 e \in {"YouTube API error", "Upload failed"} }
             \cup
             { [raised |-> FALSE, success |-> TRUE, video_id |-> VidName(nextVid + 1),
                error |-> "", sent |-> TRUE, cache |-> c2, service |-> TRUE,
                remote |-> remote \cup { [video_id |-> VidName(nextVid + 1),
                                          title |-> title] },
                nextVid |-> nextVid + 1, check |-> CheckRes(co)] :
                 c2 \in CacheVideo(co.cache, VidName(nextVid + 1), title, now) }
  IN  UNION { outcomes(co) : co \in CheckExisting(title, service) }

\* upload_video(file, title, description): its outcomes
UploadVideo(title) ==
  LET fail(co, err, sent) ==
        [raised |-> FALSE, success |-> FALSE, video_id |-> "", error |-> err,
         sent |-> sent, cache |-> co.cache, service |-> co.service,
         remote |-> remote, nextVid |-> nextVid, check |-> CheckRes(co)]
      outcomes(co) ==
        IF co.raised
        THEN { [raised |-> TRUE, success |-> FALSE, video_id |-> "", error |-> "",
                sent |-> FALSE, cache |-> co.cache, service |-> co.service,
                remote |-> remote, nextVid |-> nextVid, check |-> "raised"] }
        ELSE IF co.video # NoVideo
        THEN { fail(co, "Video already exists", FALSE) }
        ELSE IF ~GetService(co.service)
        THEN { fail(co, "YouTube service not available", FALSE) }
        ELSE { fail([co EXCEPT !.service = TRUE], e, TRUE) :
                 e \in {"YouTube API error", "Upload failed"} }
             \cup
             { [raised |-> FALSE, success |-> TRUE, video_id |-> VidName(nextVid + 1),
                error |-> "", sent |-> TRUE, cache |-> c2, service |-> TRUE,
                remote |-> remote \cup { [video_id |-> VidName(nextVid + 1),
                                          title |-> title] },
                nextVid |-> nextVid + 1, check |-> CheckRes(co)] :
                 c2 \in CacheVideo(co.cache, VidName(nextVid + 1), title, now) }
  IN  UNION { outcomes(co) : co \in CheckExisting(title, service) }


(***************************************************************************)
(* Initial state: the process has started, no request has been made. The   *)
(* database and the channel outlive the process, so the table and the      *)
(* channel may already hold a video.                                       *)
(***************************************************************************)
OldVideo == [video_id |-> "v0", title |-> <<"a">>]
OldRow == [youtube_video_id |-> "v0", title |-> <<"a">>,
           title_normalized |-> normalize_title(<<"a">>), last_updated |-> 0]
NoPoll == [status |-> "none"]
NoResponse == [code |-> 0, session_id |-> 0]
NoCall == [date |-> "", result |-> "none"]
NoEventsResponse == [code |-> 0, events |-> <<>>, error |-> ""]

\* no GET /events has been made
NoEventsCall ==
  /\ events_pc = "idle"
  /\ events = <<>>
  /\ events_i = 0
  /\ eventbrite_call = NoCall
  /\ events_result = NoEventsResponse

\* the threads that can be inside _cache_video at once
MaxWriters == 2
Writers == 1..MaxWriters
NoItem == [video_id |-> "", title |-> <<>>]
NoRow == [youtube_video_id |-> "", title |-> <<>>, title_normalized |-> <<>>,
          last_updated |-> 0]

\* _cache_video is not running and has not run
NoStoreCall ==
  /\ cv_pc = [w \in Writers |-> "idle"]
  /\ youtube_item = [w \in Writers |-> NoItem]
  /\ existing = [w \in Writers |-> NoRow]
  /\ cv_log = <<>>

\* get_recordings has not been called
NoRecordingsCall ==
  /\ gr_pc = "idle"
  /\ start_dt = 0
  /\ end_dt = 0
  /\ current_date = 0
  /\ recordings = <<>>
  /\ zoom_queries = <<>>

\* normalize_title has not been called
NoNormCall ==
  /\ norm_pc = "idle"
  /\ norm_in = <<>>
  /\ norm_out = <<>>

\* no submission and no poll yet; R are the session ids that will be given
IdleJobs(R) ==
  /\ processing_status = [r \in {} |-> NewEntry(0)]
  /\ matches = [r \in R |-> <<>>]
  /\ pc = [r \in R |-> "idle"]
  /\ idx = [r \in R |-> 0]
  /\ youtube_available = [r \in R |-> FALSE]
  /\ video_file = [r \in R |-> NoFile]
  /\ recording_files = [r \in R |-> << >>]
  /\ exc = [r \in R |-> ""]
  /\ lastPoll = [r \in R |-> NoPoll]
  /\ submit_result = NoResponse
  /\ ops = [r \in R |-> <<>>]

\* what the database and the channel hold is open
PipelineInit ==
  /\ IdleJobs(Runs)
  /\ cache \in { <<>>, <<OldRow>> }
  /\ service = FALSE
  /\ credsValid \in BOOLEAN
  /\ remote \in { {}, {OldVideo} }
  /\ nextVid = 0
  /\ now = 0
  /\ CHECK_EXISTING_VIDEOS \in BOOLEAN

Init ==
  /\ PipelineInit
  /\ NoEventsCall
  /\ NoNormCall
  /\ NoStoreCall
  /\ NoRecordingsCall

(***************************************************************************)
(* The endpoints of routes/api.py.                                         *)
(***************************************************************************)
\* Submit with a cap of one job at a time: while a worker runs, the next
\* submission is not accepted
Submit_capped(ms) ==
  /\ ms # <<>>
  /\ \A q \in DOMAIN pc : pc[q] \in {"idle", "done"}
  /\ \E r \in DOMAIN pc :
       /\ pc[r] = "idle"
       /\ \A q \in DOMAIN pc : pc[q] = "idle" => r <= q
       /\ matches' = [matches EXCEPT ![r] = ms]
       /\ pc' = [pc EXCEPT ![r] = "start"]
       /\ submit_result' = [code |-> 200, session_id |-> r]
  /\ UNCHANGED << processing_status, idx, youtube_available, video_file, recording_files, exc,
                  youtubeVars, envVars, lastPoll, ops,
                  eventVars, normVars, storeVars, recVars >>

\* Submit without the check of the list: an empty list starts a thread too
Submit_unchecked(ms) ==
  /\ \E r \in DOMAIN pc :
       /\ pc[r] = "idle"
       /\ \A q \in DOMAIN pc : pc[q] = "idle" => r <= q
       /\ matches' = [matches EXCEPT ![r] = ms]
       /\ pc' = [pc EXCEPT ![r] = "start"]
       /\ submit_result' = [code |-> 200, session_id |-> r]
  /\ UNCHANGED << processing_status, idx, youtube_available, video_file, recording_files, exc,
                  youtubeVars, envVars, lastPoll, ops,
                  eventVars, normVars, storeVars, recVars >>

\* POST /process_matches with a non-empty list: a new session id, a thread
Submit(ms) ==
  /\ ms # <<>>
  /\ \E r \in DOMAIN pc :
       /\ pc[r] = "idle"
       /\ \A q \in DOMAIN pc : pc[q] = "idle" => r <= q
       /\ matches' = [matches EXCEPT ![r] = ms]
       /\ pc' = [pc EXCEPT ![r] = "start"]
       /\ submit_result' = [code |-> 200, session_id |-> r]
  /\ UNCHANGED << processing_status, idx, youtube_available, video_file, recording_files, exc,
                  youtubeVars, envVars, lastPoll, ops,
                  eventVars, normVars, storeVars, recVars >>

\* POST /process_matches with no matches: 400, nothing is started
SubmitEmpty ==
  /\ submit_result' = [code |-> 400, session_id |-> 0]
  /\ UNCHANGED << processing_status, workerVars, youtubeVars, envVars,
                  lastPoll, ops,
                  eventVars, normVars, storeVars, recVars >>

\* StatusOf as processing_status[session_id]: the KeyError of an unknown id
\* reaches the except clause of the handler, which answers 500
StatusOf_index(r) ==
  IF r \in DOMAIN processing_status THEN processing_status[r]
  ELSE [status |-> "none", error |-> "Failed to get status"]

\* processing_status.get(session_id, {'status': 'not_found'})
StatusOf(r) ==
  IF r \in DOMAIN processing_status THEN processing_status[r] ELSE NotFound

\* GET /processing_status/<session_id>
Poll(r) ==
  /\ lastPoll' = [lastPoll EXCEPT ![r] = StatusOf(r)]
  /\ UNCHANGED << processing_status, workerVars, youtubeVars, envVars,
                  submit_result, ops,
                  eventVars, normVars, storeVars, recVars >>

(***************************************************************************)
(* process_matches_background, one action per write to processing_status.  *)
(***************************************************************************)
CurMatch(r) == matches[r][idx[r] + 1]
CurTitle(r) == EventTitle(CurMatch(r))

\* AppendMsg inserting at the head of the list
AppendMsg_prepend(r, m) ==
  [processing_status EXCEPT ![r].messages = <<m>> \o @]

AppendMsg(r, m) ==
  [processing_status EXCEPT ![r].messages = Append(@, m)]

\* one remote operation of the worker: what it was, for which match (counted
\* from 1), and for a duplicate check how it ended
Op(op, k, res) == [op |-> op, k |-> k, res |-> res]

Record(r, op, res) ==
  [ops EXCEPT ![r] = Append(@, Op(op, idx[r] + 1, res))]

\* the entry is created when the thread starts running
Begin(r) ==
  /\ pc[r] = "start"
  /\ processing_status' =
       [q \in DOMAIN processing_status \cup {r} |->
          IF q = r THEN NewEntry(Len(matches[r])) ELSE processing_status[q]]
  /\ pc' = [pc EXCEPT ![r] = "token"]
  /\ UNCHANGED << matches, idx, youtube_available, video_file, recording_files, exc,
                  youtubeVars, envVars, lastPoll, submit_result, ops,
                  eventVars, normVars, storeVars, recVars >>

\* zoom_service.get_access_token(); on None the status is set to error first
GetToken(r) ==
  /\ pc[r] = "token"
  /\ \E zoom_token \in BOOLEAN :
       IF zoom_token
       THEN /\ pc' = [pc EXCEPT ![r] = "auth"]
            /\ UNCHANGED processing_status
       ELSE /\ processing_status' = [processing_status EXCEPT ![r].status = "error"]
            /\ pc' = [pc EXCEPT ![r] = "tokenmsg"]
  /\ UNCHANGED << matches, idx, youtube_available, video_file, recording_files, exc,
                  youtubeVars, envVars, lastPoll, submit_result, ops,
                  eventVars, normVars, storeVars, recVars >>

\* ... then the message is appended and the thread returns
TokenFailMsg(r) ==
  /\ pc[r] = "tokenmsg"
  /\ processing_status' = AppendMsg(r, Msg("ZoomTokenFail", <<>>, ""))
  /\ pc' = [pc EXCEPT ![r] = "done"]
  /\ UNCHANGED << matches, idx, youtube_available, video_file, recording_files, exc,
                  youtubeVars, envVars, lastPoll, submit_result, ops,
                  eventVars, normVars, storeVars, recVars >>

\* Auth treating an unavailable YouTube like a missing Zoom token
Auth_fatal(r) ==
  /\ pc[r] = "auth"
  /\ youtube_available' = [youtube_available EXCEPT ![r] = GetService(service)]
  /\ service' = GetService(service)
  /\ processing_status' =
       IF GetService(service) THEN processing_status
       ELSE [processing_status EXCEPT
               ![r].status = "error",
               ![r].messages = Append(@, Msg("YouTubeNotAuth", <<>>, ""))]
  /\ pc' = [pc EXCEPT ![r] = IF GetService(service) THEN "loop" ELSE "done"]
  /\ UNCHANGED << matches, idx, video_file, recording_files, exc, cache, remote, nextVid,
                  envVars, lastPoll, submit_result, ops,
                  eventVars, normVars, storeVars, recVars >>

\* youtube_available = youtube_service.is_authenticated(), and its message
Auth(r) ==
  /\ pc[r] = "auth"
  /\ youtube_available' = [youtube_available EXCEPT ![r] = GetService(service)]
  /\ service' = GetService(service)
  /\ processing_status' =
       IF GetService(service) THEN processing_status
       ELSE AppendMsg(r, Msg("YouTubeNotAuth", <<>>, ""))
  /\ pc' = [pc EXCEPT ![r] = "loop"]
  /\ UNCHANGED << matches, idx, video_file, recording_files, exc, cache, remote, nextVid,
                  envVars, lastPoll, submit_result, ops,
                  eventVars, normVars, storeVars, recVars >>

\* Loop counting the matches from 2: current = i + 2
Loop_offbyone(r) ==
  /\ pc[r] = "loop"
  /\ IF idx[r] < Len(matches[r])
     THEN /\ processing_status' =
               [processing_status EXCEPT ![r].current = idx[r] + 2]
          /\ pc' = [pc EXCEPT ![r] = "resolve"]
     ELSE /\ processing_status' =
               [processing_status EXCEPT ![r].status = "completed"]
          /\ pc' = [pc EXCEPT ![r] = "done"]
  /\ UNCHANGED << matches, idx, youtube_available, video_file, recording_files, exc,
                  youtubeVars, envVars, lastPoll, submit_result, ops,
                  eventVars, normVars, storeVars, recVars >>

\* the head of the for loop: current = i + 1, or the loop is over and the
\* status becomes completed
Loop(r) ==
  /\ pc[r] = "loop"
  /\ IF idx[r] < Len(matches[r])
     THEN /\ processing_status' =
               [processing_status EXCEPT ![r].current = idx[r] + 1]
          /\ pc' = [pc EXCEPT ![r] = "resolve"]
     ELSE /\ processing_status' =
               [processing_status EXCEPT ![r].status = "completed"]
          /\ pc' = [pc EXCEPT ![r] = "done"]
  /\ UNCHANGED << matches, idx, youtube_available, video_file, recording_files, exc,
                  youtubeVars, envVars, lastPoll, submit_result, ops,
                  eventVars, normVars, storeVars, recVars >>

\* Raise with no except clause around the loop: the thread dies
Raise_uncaught(r, e) ==
  /\ UNCHANGED processing_status
  /\ exc' = [exc EXCEPT ![r] = e]
  /\ pc' = [pc EXCEPT ![r] = "done"]

\* Raise with the status name of models.ProcessingStatus.FAILED
Raise_failed(r, e) ==
  /\ processing_status' = [processing_status EXCEPT ![r].status = "failed"]
  /\ exc' = [exc EXCEPT ![r] = e]
  /\ pc' = [pc EXCEPT ![r] = "excmsg"]

\* an exception reaches the except clause: the status is set to error
Raise(r, e) ==
  /\ processing_status' = [processing_status EXCEPT ![r].status = "error"]
  /\ exc' = [exc EXCEPT ![r] = e]
  /\ pc' = [pc EXCEPT ![r] = "excmsg"]

\* Continue as a break: the loop is left
Continue_break(r) ==
  /\ idx' = [idx EXCEPT ![r] = Len(matches[r])]
  /\ video_file' = [video_file EXCEPT ![r] = NoFile]
  /\ recording_files' = [recording_files EXCEPT ![r] = << >>]
  /\ pc' = [pc EXCEPT ![r] = "loop"]

\* continue before a video file was chosen: on to the next match
Skip(r) ==
  /\ idx' = [idx EXCEPT ![r] = @ + 1]
  /\ video_file' = [video_file EXCEPT ![r] = NoFile]
  /\ pc' = [pc EXCEPT ![r] = "loop"]

\* continue: on to the next match; the list of files is not read again
Continue(r) ==
  /\ idx' = [idx EXCEPT ![r] = @ + 1]
  /\ video_file' = [video_file EXCEPT ![r] = NoFile]
  /\ recording_files' = [recording_files EXCEPT ![r] = << >>]
  /\ pc' = [pc EXCEPT ![r] = "loop"]

\* match['zoom_meeting'], the event title, and the Processing message
Resolve(r) ==
  /\ pc[r] = "resolve"
  /\ IF ~CurMatch(r).has_meeting
     THEN Raise(r, "KeyError")
     ELSE /\ processing_status' = AppendMsg(r, Msg("Processing", CurTitle(r), ""))
          /\ pc' = [pc EXCEPT ![r] = IF youtube_available[r] THEN "check" ELSE "files"]
          /\ UNCHANGED exc
  /\ UNCHANGED << matches, idx, youtube_available, video_file, recording_files,
                  youtubeVars, envVars, lastPoll, submit_result, ops,
                  eventVars, normVars, storeVars, recVars >>


\* Check without the continue after the message of an existing video
Check_nocontinue(r) ==
  /\ pc[r] = "check"
  /\ \E co \in CheckExisting(CurTitle(r), service) :
       /\ ops' = Record(r, "check", CheckRes(co))
       /\ cache' = co.cache
       /\ service' = co.service
       /\ IF co.raised
          THEN /\ Raise(r, "DBError")
               /\ UNCHANGED << idx, video_file, recording_files >>
          ELSE /\ processing_status' =
                    IF co.video # NoVideo
                    THEN AppendMsg(r, Msg("Exists", CurTitle(r), co.video.video_id))
                    ELSE processing_status
               /\ pc' = [pc EXCEPT ![r] = "files"]
               /\ UNCHANGED << idx, video_file, recording_files, exc >>
  /\ UNCHANGED << matches, youtube_available, remote, nextVid, envVars,
                  lastPoll, submit_result,
                  eventVars, normVars, storeVars, recVars >>

\* the duplicate check of the loop: check_existing_video(event_title)
Check(r) ==
  /\ pc[r] = "check"
  /\ \E co \in CheckExisting(CurTitle(r), service) :
       /\ ops' = Record(r, "check", CheckRes(co))
       /\ cache' = co.cache
       /\ service' = co.service
       /\ IF co.raised
          THEN /\ Raise(r, "DBError")
               /\ UNCHANGED << idx, video_file, recording_files >>
          ELSE IF co.video # NoVideo
          THEN /\ processing_status' =
                    AppendMsg(r, Msg("Exists", CurTitle(r), co.video.video_id))
               /\ Continue(r)
               /\ UNCHANGED exc
          ELSE /\ pc' = [pc EXCEPT ![r] = "files"]
               /\ UNCHANGED << processing_status, idx, video_file, recording_files, exc >>
  /\ UNCHANGED << matches, youtube_available, remote, nextVid, envVars,
                  lastPoll, submit_result,
                  eventVars, normVars, storeVars, recVars >>

\* get_recording_files (an error gives the empty list) and the search for
\* the first MP4 file
Files(r) ==
  /\ pc[r] = "files"
  /\ ops' = Record(r, "list", "")
  /\ \E files \in FileLists :
       /\ recording_files' = [recording_files EXCEPT ![r] = files]
       /\ IF files = <<>>
          THEN /\ processing_status' = AppendMsg(r, Msg("NoFiles", CurTitle(r), ""))
               /\ Skip(r)
          ELSE IF FirstMP4(files) = NoFile
          THEN /\ processing_status' = AppendMsg(r, Msg("NoMP4", CurTitle(r), ""))
               /\ Skip(r)
          ELSE /\ video_file' = [video_file EXCEPT ![r] = FirstMP4(files)]
               /\ pc' = [pc EXCEPT ![r] = "download"]
               /\ UNCHANGED << processing_status, idx >>
  /\ UNCHANGED << matches, youtube_available, exc, youtubeVars, envVars,
                  lastPoll, submit_result,
                  eventVars, normVars, storeVars, recVars >>

\* Download going on to the upload whether or not YouTube is available
Download_upload(r) ==
  /\ pc[r] = "download"
  /\ ops' = Record(r, "download", "")
  /\ \E video_path \in BOOLEAN :
       IF ~video_path
       THEN /\ processing_status' =
                 AppendMsg(r, Msg("DownloadFailed", CurTitle(r), ""))
            /\ Continue(r)
       ELSE /\ processing_status' = AppendMsg(r, Msg("Downloaded", CurTitle(r), ""))
            /\ pc' = [pc EXCEPT ![r] = "upload"]
            /\ recording_files' = [recording_files EXCEPT ![r] = << >>]
            /\ UNCHANGED << idx, video_file >>
  /\ UNCHANGED << matches, youtube_available, exc, youtubeVars, envVars,
                  lastPoll, submit_result,
                  eventVars, normVars, storeVars, recVars >>

\* download_video (None on any failure) and its message; the list of files
\* is not read after the video file was chosen and is dropped here
Download(r) ==
  /\ pc[r] = "download"
  /\ ops' = Record(r, "download", "")
  /\ \E video_path \in BOOLEAN :
       IF ~video_path
       THEN /\ processing_status' =
                 AppendMsg(r, Msg("DownloadFailed", CurTitle(r), ""))
            /\ Continue(r)
       ELSE /\ processing_status' = AppendMsg(r, Msg("Downloaded", CurTitle(r), ""))
            /\ IF youtube_available[r]
               THEN /\ pc' = [pc EXCEPT ![r] = "upload"]
                    /\ recording_files' = [recording_files EXCEPT ![r] = << >>]
                    /\ UNCHANGED << idx, video_file >>
               ELSE Continue(r)
  /\ UNCHANGED << matches, youtube_available, exc, youtubeVars, envVars,
                  lastPoll, submit_result,
                  eventVars, normVars, storeVars, recVars >>

\* upload_video and the message for its result
Upload(r) ==
  /\ pc[r] = "upload"
  /\ \E uo \in UploadVideo(CurTitle(r)) :
       /\ cache' = uo.cache
       /\ service' = uo.service
       /\ remote' = uo.remote
       /\ nextVid' = uo.nextVid
       /\ ops' = [ops EXCEPT ![r] =
                    @ \o << Op("upload_video", idx[r] + 1, uo.check) >>
                      \o (IF uo.sent THEN << Op("insert", idx[r] + 1, "") >>
                                     ELSE << >>)]
       /\ IF uo.raised
          THEN /\ Raise(r, "DBError")
               /\ UNCHANGED << idx, video_file, recording_files >>
          ELSE /\ processing_status' =
                    AppendMsg(r, IF uo.success
                                 THEN Msg("Uploaded", CurTitle(r), uo.video_id)
                                 ELSE Msg("UploadFailed", CurTitle(r), uo.error))
               /\ Continue(r)
               /\ UNCHANGED exc
  /\ UNCHANGED << matches, youtube_available, envVars, lastPoll, submit_result,
                  eventVars, normVars, storeVars, recVars >>

\* ExcMsg replacing the log by the error text
ExcMsg_reset(r) ==
  /\ pc[r] = "excmsg"
  /\ processing_status' =
       [processing_status EXCEPT ![r].messages = << Msg("Error", <<>>, exc[r]) >>]
  /\ pc' = [pc EXCEPT ![r] = "done"]
  /\ UNCHANGED << matches, idx, youtube_available, video_file, recording_files, exc,
                  youtubeVars, envVars, lastPoll, submit_result, ops,
                  eventVars, normVars, storeVars, recVars >>

\* the except clause, after the status: the error text is appended
ExcMsg(r) ==
  /\ pc[r] = "excmsg"
  /\ processing_status' = AppendMsg(r, Msg("Error", <<>>, exc[r]))
  /\ pc' = [pc EXCEPT ![r] = "done"]
  /\ UNCHANGED << matches, idx, youtube_available, video_file, recording_files, exc,
                  youtubeVars, envVars, lastPoll, submit_result, ops,
                  eventVars, normVars, storeVars, recVars >>

(***************************************************************************)
(* The environment: time passes, the credentials on disk come and go.      *)
(***************************************************************************)
Tick ==
  /\ now < MaxTicks * TickHours
  /\ now' = now + TickHours
  /\ UNCHANGED << processing_status, workerVars, youtubeVars, credsValid,
                  CHECK_EXISTING_VIDEOS, lastPoll, submit_result, ops,
                  eventVars, normVars, storeVars, recVars >>

\* (once self.service is set the program never reads the credentials again)
CredentialsChange ==
  /\ ~service
  /\ credsValid' = ~credsValid
  /\ UNCHANGED << processing_status, workerVars, youtubeVars, now,
                  CHECK_EXISTING_VIDEOS, lastPoll, submit_result, ops,
                  eventVars, normVars, storeVars, recVars >>

Worker(r) ==
  \/ Begin(r)
  \/ GetToken(r)
  \/ TokenFailMsg(r)
  \/ Auth(r)
  \/ Loop(r)
  \/ Resolve(r)
  \/ Check(r)
  \/ Files(r)
  \/ Download(r)
  \/ Upload(r)
  \/ ExcMsg(r)

Next ==
  \/ \E ms \in MatchLists : Submit(ms)
  \/ SubmitEmpty
  \/ \E r \in Runs : Poll(r)
  \/ \E r \in Runs : Worker(r)
  \/ Tick
  \/ CredentialsChange

Spec == Init /\ [][Next]_vars

(***************************************************************************)
(* POST /events of routes/api.py: the Eventbrite events of a date, each    *)
(* annotated with the YouTube video that exists for its title. One action  *)
(* per call of check_existing_video, which reads and writes the table.     *)
(***************************************************************************)
MaxEvents == 2

\* meeting_date and organization_id of the request body
DateInputs == { "", "next week?", "2025-01-15" }
OrgInputs == { "", "org1" }

\* dateutil's parse(meeting_date) returns a date
ParsesAsDate(d) == d \in { "2025-01-15" }

\* an event as Eventbrite returns it: its name may be missing
EventNames == TitleSet \cup { <<"b">> }
EventValues ==
  [ has_name : {TRUE}, name : EventNames ]
    \cup { [ has_name |-> FALSE, name |-> <<>> ] }
EventLists == SeqsUpTo(EventValues, MaxEvents)

\* event.get('name', {}).get('text', '')
EventName(e) == IF e.has_name THEN e.name ELSE <<>>

\* an event of the handler's list: the keys youtube_exists and youtube_video
\* are absent until it is annotated; check is how its lookup ended
PlainEvent(e) ==
  [ has_name |-> e.has_name, name |-> e.name, has_exists |-> FALSE,
    youtube_exists |-> FALSE, has_video |-> FALSE, youtube_video |-> NoVideo,
    check |-> "" ]

\* Annotated marking every event as existing
Annotated_always(e, co) ==
  [ e EXCEPT !.has_exists = TRUE,
             !.youtube_exists = TRUE,
             !.has_video = (co.video # NoVideo),
             !.youtube_video = co.video,
             !.check = CheckRes(co) ]

\* the event after the authenticated branch: youtube_video only when found
Annotated(e, co) ==
  [ e EXCEPT !.has_exists = TRUE,
             !.youtube_exists = (co.video # NoVideo),
             !.has_video = (co.video # NoVideo),
             !.youtube_video = co.video,
             !.check = CheckRes(co) ]

\* the event after the other branch: False and None
Unchecked(e) ==
  [ e EXCEPT !.has_exists = TRUE, !.has_video = TRUE ]

EventsResponse(code, evs, error) ==
  [ code |-> code, events |-> evs, error |-> error ]

\* the handler returns
EventsReturn(code, evs, error) ==
  /\ events_result' = EventsResponse(code, evs, error)
  /\ events_pc' = "idle"
  /\ events' = <<>>
  /\ events_i' = 0

\* eventbrite_service.get_events_by_date: the events of the answer, and the
\* empty list when Eventbrite answers with an error or cannot be reached
GetEventsByDate ==
  { [ call |-> "ok", events |-> evs ] : evs \in EventLists }
    \cup { [ call |-> "failed", events |-> <<>> ] }

\* get_events up to the loop over the events: the two checks of the body,
\* the call of Eventbrite, is_authenticated() and the branch without YouTube
GetEvents(meeting_date, organization_id) ==
  /\ events_pc = "idle"
  /\ IF meeting_date = "" \/ organization_id = ""
     THEN /\ EventsReturn(400, <<>>, "Meeting date and organization ID are required")
          /\ eventbrite_call' = NoCall
          /\ UNCHANGED service
     ELSE IF ~ParsesAsDate(meeting_date)
     THEN /\ EventsReturn(400, <<>>, "Invalid date format")
          /\ eventbrite_call' = NoCall
          /\ UNCHANGED service
     ELSE \E eb \in GetEventsByDate :
            /\ eventbrite_call' = [date |-> meeting_date, result |-> eb.call]
            /\ service' = GetService(service)
            /\ IF GetService(service)
               THEN /\ events_pc' = "annotate"
                    /\ events' = [ n \in 1..Len(eb.events) |->
                                     PlainEvent(eb.events[n]) ]
                    /\ events_i' = 0
                    /\ events_result' = NoEventsResponse
               ELSE EventsReturn(200,
                      [ n \in 1..Len(eb.events) |->
                          Unchecked(PlainEvent(eb.events[n])) ], "")
  /\ UNCHANGED << jobVars, cache, remote, nextVid, envVars, normVars, storeVars, recVars >>

\* one turn of the loop: check_existing_video(event_title); an exception it
\* raises reaches the except clause of the handler
GetEventsAnnotate ==
  /\ events_pc = "annotate"
  /\ events_i < Len(events)
  /\ \E co \in CheckExisting(EventName(events[events_i + 1]), service) :
       /\ cache' = co.cache
       /\ service' = co.service
       /\ IF co.raised
          THEN EventsReturn(500, <<>>, "Failed to get events")
          ELSE /\ events' = [ events EXCEPT ![events_i + 1] = Annotated(@, co) ]
               /\ events_i' = events_i + 1
               /\ UNCHANGED << events_pc, events_result >>
  /\ UNCHANGED << jobVars, remote, nextVid, envVars, eventbrite_call, normVars, storeVars, recVars >>

\* the loop is over: jsonify({'events': events})
GetEventsReturn ==
  /\ events_pc = "annotate"
  /\ events_i = Len(events)
  /\ EventsReturn(200, events, "")
  /\ UNCHANGED << jobVars, youtubeVars, envVars, eventbrite_call, normVars, storeVars, recVars >>

\* the request handlers alone: the worker threads that submissions start
\* have not been scheduled yet
RequestNext ==
  \/ \E d \in DateInputs, o \in OrgInputs : GetEvents(d, o)
  \/ GetEventsAnnotate
  \/ GetEventsReturn
  \/ \E ms \in MatchLists : Submit(ms)
  \/ SubmitEmpty
  \/ \E r \in Runs : Poll(r)
  \/ Tick
  \/ CredentialsChange

RequestSpec == Init /\ [][RequestNext]_vars

(***************************************************************************)
(* normalize_title on its own: a title over a small alphabet of one        *)
(* upper-case letter, its lower-case form, a digit, the underscore, a      *)
(* punctuation mark and two kinds of whitespace is given to it once.       *)
(***************************************************************************)
MaxTitleLen == 4
TitleChars == { "A", "a", "1", "_", "!", " ", "\t" }
Titles == SeqsUpTo(TitleChars, MaxTitleLen)

NormInit ==
  /\ PipelineInit
  /\ cache = << >>
  /\ remote = {}
  /\ ~credsValid
  /\ CHECK_EXISTING_VIDEOS
  /\ NoEventsCall
  /\ norm_pc = "idle"
  /\ norm_in \in Titles
  /\ norm_out = << >>
  /\ NoStoreCall
  /\ NoRecordingsCall

\* YouTubeVideo.normalize_title(norm_in)
NormalizeTitle ==
  /\ norm_pc = "idle"
  /\ norm_out' = normalize_title(norm_in)
  /\ norm_pc' = "called"
  /\ UNCHANGED << jobVars, youtubeVars, envVars, eventVars, norm_in, storeVars, recVars >>

NormNext == NormalizeTitle

NormSpec == NormInit /\ [][NormNext]_vars

(***************************************************************************)
(* _cache_video on its own, called by threads that each have a database    *)
(* session of their own (the scoped session of Flask-SQLAlchemy). A call   *)
(* is two steps, the SELECT of the row and the commit, and another call    *)
(* can run between them. The commit of a loaded row is an UPDATE of the    *)
(* columns whose new value differs from the loaded one, which is what the  *)
(* ORM emits; the commit of a new row is an INSERT, which the unique       *)
(* constraint on youtube_video_id rejects when a row of that id exists.    *)
(***************************************************************************)
MaxStores == 3

\* the items given to _cache_video: a video id and the title of its snippet
ItemIds == { "v0", "v1" }
ItemTitles == { << "a" >>, << "A", "!" >>, << "B", "!" >> }
Items == [ video_id : ItemIds, title : ItemTitles ]

\* calls begun so far
StoresBegun == Len(cv_log) + Cardinality({ w \in Writers : cv_pc[w] # "idle" })

\* a call has ended: what it was given, how it ended, and when
StoreEnds(w, res) ==
  /\ cv_log' = Append(cv_log, [ w |-> w, item |-> youtube_item[w], res |-> res,
                               at |-> now ])
  /\ cv_pc' = [cv_pc EXCEPT ![w] = "idle"]

\* the row a call means to leave in the table
RowOf(item, t) ==
  [ youtube_video_id |-> item.video_id, title |-> item.title,
    title_normalized |-> normalize_title(item.title), last_updated |-> t ]

\* the UPDATE the commit emits for a row loaded as old and assigned as new:
\* only the columns with a net change are set
UpdateRow(row, old, new) ==
  [ f \in DOMAIN row |-> IF new[f] # old[f] THEN new[f] ELSE row[f] ]

\* UpdateRow setting every assigned column
UpdateRow_all(row, old, new) == new

\* existing = YouTubeVideo.query.filter_by(youtube_video_id=video_id).first()
CacheQuery(w, item) ==
  /\ cv_pc[w] = "idle"
  /\ StoresBegun < MaxStores
  /\ youtube_item' = [youtube_item EXCEPT ![w] = item]
  /\ LET k == FirstById(cache, item.video_id)
     IN  existing' = [existing EXCEPT ![w] = IF k = 0 THEN NoRow ELSE cache[k]]
  /\ cv_pc' = [cv_pc EXCEPT ![w] = "commit"]
  /\ UNCHANGED << jobVars, youtubeVars, envVars, eventVars, normVars, cv_log,
                  recVars >>

\* CacheCommit without the unique constraint: the INSERT always succeeds
CacheCommit_nonunique(w) ==
  /\ cv_pc[w] = "commit"
  /\ LET item == youtube_item[w]
         k == FirstById(cache, item.video_id)
     IN  \/ /\ existing[w] # NoRow
            /\ cache' = [cache EXCEPT
                           ![k] = UpdateRow(@, existing[w], RowOf(item, now))]
            /\ StoreEnds(w, "updated")
         \/ /\ existing[w] = NoRow
            /\ cache' = Append(cache, RowOf(item, now))
            /\ StoreEnds(w, "inserted")
         \/ /\ UNCHANGED cache
            /\ StoreEnds(w, "db_error")
  /\ UNCHANGED << jobVars, service, remote, nextVid, envVars, eventVars,
                  normVars, youtube_item, existing, recVars >>

\* the assignments or db.session.add, and db.session.commit(); an exception
\* (the IntegrityError of a second row of the id, or any other) is logged
\* and rolled back
CacheCommit(w) ==
  /\ cv_pc[w] = "commit"
  /\ LET item == youtube_item[w]
         k == FirstById(cache, item.video_id)
     IN  \/ /\ existing[w] # NoRow
            /\ cache' = [cache EXCEPT
                           ![k] = UpdateRow(@, existing[w], RowOf(item, now))]
            /\ StoreEnds(w, "updated")
         \/ /\ existing[w] = NoRow
            /\ k = 0
            /\ cache' = Append(cache, RowOf(item, now))
            /\ StoreEnds(w, "inserted")
         \/ /\ existing[w] = NoRow
            /\ k # 0
            /\ UNCHANGED cache
            /\ StoreEnds(w, "integrity_error")
         \/ /\ UNCHANGED cache
            /\ StoreEnds(w, "db_error")
  /\ UNCHANGED << jobVars, service, remote, nextVid, envVars, eventVars,
                  normVars, youtube_item, existing, recVars >>

CacheNext ==
  \/ \E w \in Writers, item \in Items : CacheQuery(w, item)
  \/ \E w \in Writers : CacheCommit(w)
  \/ Tick

\* the table is empty or holds the row of an older video; nothing else runs
CacheInit ==
  /\ Init
  /\ remote = {}
  /\ ~credsValid
  /\ CHECK_EXISTING_VIDEOS

CacheSpec == CacheInit /\ [][CacheNext]_vars

(***************************************************************************)
(* Two submissions of the same confirmed match, one thread each, every     *)
(* thread scheduled as long as it has a step to take.                      *)
(***************************************************************************)
MaxConcRuns == 2
ConcRuns == 1..MaxConcRuns

\* the match both operators confirm
SameMatch == [ has_meeting |-> TRUE, has_name |-> TRUE, name |-> << "A", "!" >> ]

ConcInit ==
  /\ IdleJobs(ConcRuns)
  /\ cache \in { <<>>, <<OldRow>> }
  /\ service = FALSE
  /\ credsValid \in BOOLEAN
  /\ remote \in { {}, {OldVideo} }
  /\ nextVid = 0
  /\ now = 0
  /\ CHECK_EXISTING_VIDEOS \in BOOLEAN
  /\ NoEventsCall
  /\ NoNormCall
  /\ NoStoreCall
  /\ NoRecordingsCall

ConcNext ==
  \/ Submit(<< SameMatch >>)
  \/ \E r \in ConcRuns : Worker(r)

ConcSpec ==
  ConcInit /\ [][ConcNext]_vars /\ \A r \in ConcRuns : WF_vars(Worker(r))

(***************************************************************************)
(* ZoomService.get_recordings on its own. Dates are day numbers; a date    *)
(* string that strptime rejects raises ValueError. One action per turn of  *)
(* the while loop, which sends one request: Zoom answers 200 with a list   *)
(* of meetings, answers with an error status, or the request raises.       *)
(***************************************************************************)
MaxStart == 2
MaxDay == 63
MaxMeetings == 2

\* start_date and end_date as the caller passes them
DateStrings(last) ==
  { [ valid |-> TRUE, day |-> n ] : n \in 0..last }
    \cup { [ valid |-> FALSE, day |-> 0 ] }

\* a meeting of an answer: the number of its recording files
Meetings == [ id : {"m"}, recording_files : 0..1 ]

\* what requests.get can give for one chunk
ZoomAnswers ==
  { [ raised |-> FALSE, status_code |-> 200, meetings |-> ms ] :
      ms \in SeqsUpTo(Meetings, MaxMeetings) }
    \cup { [ raised |-> FALSE, status_code |-> 500, meetings |-> << >> ],
           [ raised |-> TRUE, status_code |-> 0, meetings |-> << >> ] }

\* meeting.get('recording_files') is truthy
HasFiles(m) == m.recording_files > 0

Min(a, b) == IF a <= b THEN a ELSE b

\* chunk_end without the min: the window may run past end_dt
ChunkEnd_unclipped(cur, last) == cur + chunk_size

\* chunk_end = min(current_date + chunk_size, end_dt)
ChunkEnd(cur, last) == Min(cur + chunk_size, last)

\* get_recordings up to the loop: the two dates are parsed
GetRecordings(start_date, end_date) ==
  /\ gr_pc = "idle"
  /\ IF start_date.valid /\ end_date.valid
     THEN /\ start_dt' = start_date.day
          /\ end_dt' = end_date.day
          /\ current_date' = start_date.day
          /\ gr_pc' = "loop"
     ELSE \* ValueError, caught by the except clause: return []
          /\ gr_pc' = "failed"
          /\ UNCHANGED << start_dt, end_dt, current_date >>
  /\ recordings' = << >>
  /\ zoom_queries' = << >>
  /\ UNCHANGED << jobVars, youtubeVars, envVars, eventVars, normVars, storeVars >>

\* one turn of the while loop
GetRecordingsChunk ==
  /\ gr_pc = "loop"
  /\ current_date <= end_dt
  /\ LET chunk_end == ChunkEnd(current_date, end_dt)
     IN  \E response \in ZoomAnswers :
           /\ zoom_queries' =
                Append(zoom_queries,
                       [ from |-> current_date, to |-> chunk_end,
                         response |-> response ])
           /\ IF response.raised
              THEN \* caught by the except clause: return []
                   /\ gr_pc' = "failed"
                   /\ UNCHANGED << recordings, current_date >>
              ELSE /\ recordings' =
                        IF response.status_code = 200
                        THEN recordings \o SelectSeq(response.meetings, HasFiles)
                        ELSE recordings
                   /\ current_date' = chunk_end + 1
                   /\ UNCHANGED gr_pc
  /\ UNCHANGED << start_dt, end_dt >>
  /\ UNCHANGED << jobVars, youtubeVars, envVars, eventVars, normVars, storeVars >>

\* the loop is over: return recordings
GetRecordingsReturn ==
  /\ gr_pc = "loop"
  /\ current_date > end_dt
  /\ gr_pc' = "returned"
  /\ UNCHANGED << start_dt, end_dt, current_date, recordings, zoom_queries >>
  /\ UNCHANGED << jobVars, youtubeVars, envVars, eventVars, normVars, storeVars >>

\* what get_recordings returns: the list, or [] from the except clause
RecordingsReturned == IF gr_pc = "returned" THEN recordings ELSE << >>

RecInit == CacheInit /\ cache = << >>

RecNext ==
  \/ \E start_date \in DateStrings(MaxStart), end_date \in DateStrings(MaxDay) :
       GetRecordings(start_date, end_date)
  \/ GetRecordingsChunk
  \/ GetRecordingsReturn

\* the call runs in the thread of its request and every request it sends
\* ends, with an answer or with the timeout of 60 seconds
RecSpec ==
  RecInit /\ [][RecNext]_vars
    /\ WF_vars(GetRecordingsChunk) /\ WF_vars(GetRecordingsReturn)

(***************************************************************************)
(* The pipeline without the polls, which change nothing a worker reads. A  *)
(* worker is a thread of its own (threading.Thread(...).start()), so the   *)
(* scheduler lets it take its next step as long as it has one; each step   *)
(* ends when the remote call it makes returns.                             *)
(***************************************************************************)
LiveNext ==
  \/ \E ms \in MatchLists : Submit(ms)
  \/ \E r \in Runs : Worker(r)
  \/ Tick
  \/ CredentialsChange

LiveSpec ==
  Init /\ [][LiveNext]_vars /\ \A r \in Runs : WF_vars(Worker(r))


(***************************************************************************)
(* Vocabulary of the properties.                                           *)
(***************************************************************************)
Terminal == {"completed", "error"}
JobStatuses == {"queued", "processing", "completed", "error"}
StatusEdges == { <<"queued", "processing">>, <<"processing", "completed">>,
                 <<"processing", "error">> }

\* a poll result that is a job, not the not-found result
IsJob(snap) == snap.status \notin {"none", "not_found"}

IsPrefix(a, b) == Len(a) <= Len(b) /\ SubSeq(b, 1, Len(a)) = a

KindCount(msgs, kind) == Cardinality({ j \in 1..Len(msgs) : msgs[j][1] = kind })
HasKind(msgs, kind) == \E j \in 1..Len(msgs) : msgs[j][1] = kind

\* the match a message belongs to: the number of Processing messages up to it
MatchOfMsg(msgs, j) == KindCount(SubSeq(msgs, 1, j), "Processing")

Started == DOMAIN processing_status

(***************************************************************************)
(* C1. A job's status is one of queued, processing, completed, error, and  *)
(* every step that changes it goes queued -> processing, processing ->     *)
(* completed or processing -> error; nothing leaves completed or error.    *)
(***************************************************************************)
C1_Step ==
  \A r \in Runs :
    /\ r \in DOMAIN processing_status' =>
         processing_status'[r].status \in JobStatuses
    /\ r \in Started =>
         /\ r \in DOMAIN processing_status'
         /\ \/ processing_status'[r].status = processing_status[r].status
            \/ << processing_status[r].status, processing_status'[r].status >>
                 \in StatusEdges

C1_StatusMachine == [][C1_Step]_vars

\* a run has ended in error while it handled its second match
C1_Witness ==
  \E r \in Started :
    /\ processing_status[r].status = "error"
    /\ pc[r] = "done"
    /\ processing_status[r].current = 2

(***************************************************************************)
(* C2. Every snapshot a poll observes has 0 <= current <= total, total     *)
(* being the number of matches submitted, and current does not decrease    *)
(* from one poll of a run to the next.                                     *)
(***************************************************************************)
C2_Step ==
  \A r \in Runs :
    IsJob(lastPoll'[r]) =>
      /\ 0 <= lastPoll'[r].current
      /\ lastPoll'[r].current <= lastPoll'[r].total
      /\ lastPoll'[r].total = Len(matches'[r])
      /\ IsJob(lastPoll[r]) => lastPoll[r].current <= lastPoll'[r].current

C2_ProgressBounds == [][C2_Step]_vars

\* a poll saw current = 1 of 2 and the worker has since moved to match 2
C2_Witness ==
  \E r \in Started :
    /\ IsJob(lastPoll[r])
    /\ lastPoll[r].current = 1
    /\ lastPoll[r].total = 2
    /\ processing_status[r].current = 2

(***************************************************************************)
(* C3. Once a poll has observed status completed or error for a run, no    *)
(* later poll of that run observes a different status, current, total or   *)
(* message log.                                                            *)
(***************************************************************************)
C3_Step ==
  \A r \in Runs :
    (IsJob(lastPoll[r]) /\ lastPoll[r].status \in Terminal) =>
      lastPoll'[r] = lastPoll[r]

C3_TerminalImmutable == [][C3_Step]_vars


(***************************************************************************)
(* C4. A fatal failure (no Zoom token before the loop, or an exception     *)
(* while match k is handled) ends the run in status error with the error   *)
(* text appended to the log; after it no operation of any match is made,   *)
(* and the messages logged before it keep their positions.                 *)
(***************************************************************************)
\* the worker has hit a fatal failure
Failing(r) == pc[r] \in {"tokenmsg", "excmsg"}
Failed(r) == pc[r] = "done" /\ processing_status[r].status = "error"

\* the text the failure leaves in the log
ErrorText(r) ==
  IF pc[r] = "tokenmsg" THEN Msg("ZoomTokenFail", <<>>, "")
  ELSE Msg("Error", <<>>, exc[r])

C4_Step ==
  \A r \in Started :
    /\ Failing(r)' => processing_status'[r].status = "error"
    /\ (Failing(r) \/ Failed(r)) =>
         /\ processing_status'[r].status = "error"
         /\ processing_status'[r].current = processing_status[r].current
         /\ ops'[r] = ops[r]
         /\ idx'[r] = idx[r]
         /\ pc'[r] \in {pc[r], "done"}
    /\ (Failing(r) /\ pc'[r] = "done") =>
         processing_status'[r].messages =
           Append(processing_status[r].messages, ErrorText(r))
    /\ Failed(r) =>
         processing_status'[r].messages = processing_status[r].messages
    /\ (~Failing(r) /\ Failing(r)') =>
         processing_status'[r].messages = processing_status[r].messages

C4_FatalFailure == [][C4_Step]_vars

\* a database error while the first of two matches was checked ended the run
C4_Witness ==
  \E r \in Started :
    /\ Failed(r)
    /\ Len(matches[r]) = 2
    /\ processing_status[r].current = 1
    /\ processing_status[r].messages =
         << Msg("Processing", EventTitle(matches[r][1]), ""),
            Msg("Error", <<>>, "DBError") >>

(***************************************************************************)
(* C5. As claimed: failure to obtain the YouTube credential is fatal, the  *)
(* job ends in status error.                                               *)
(***************************************************************************)
\* the run found YouTube unavailable when it started
YouTubeFailed(r) ==
  HasKind(processing_status[r].messages, "YouTubeNotAuth")

C5_Original ==
  \A r \in Started :
    (pc[r] = "done" /\ YouTubeFailed(r)) =>
      processing_status[r].status = "error"

(***************************************************************************)
(* C5, amended. Failure to obtain the YouTube credential is not fatal: the *)
(* job stays in processing when it is found, and unless an exception ends  *)
(* the run, every match is handled and the job ends completed.             *)
(***************************************************************************)
C5_NotFatal ==
  \A r \in Started :
    /\ (pc[r] = "loop" /\ idx[r] = 0 /\ YouTubeFailed(r)) =>
         processing_status[r].status = "processing"
    /\ (pc[r] = "done" /\ YouTubeFailed(r)
          /\ ~HasKind(processing_status[r].messages, "Error")) =>
         /\ processing_status[r].status = "completed"
         /\ processing_status[r].current = Len(matches[r])
         /\ KindCount(processing_status[r].messages, "Processing") = Len(matches[r])

\* a run without YouTube has downloaded a recording and ended completed
C5_Witness ==
  \E r \in Started :
    /\ pc[r] = "done"
    /\ YouTubeFailed(r)
    /\ processing_status[r].status = "completed"
    /\ Len(matches[r]) = 2
    /\ HasKind(processing_status[r].messages, "Downloaded")

(***************************************************************************)
(* C6. A soft failure of a match (duplicate found, no video file, download *)
(* failed, publish failed) appends a message, leaves the job in processing *)
(* and moves the worker on to the next match; a run without a fatal        *)
(* failure ends completed with every match handled.                        *)
(***************************************************************************)
SoftKinds == {"Exists", "NoFiles", "NoMP4", "DownloadFailed", "UploadFailed"}

\* the step appends a soft-failure message to the log of r
SoftStep(r) ==
  /\ Len(processing_status'[r].messages) = Len(processing_status[r].messages) + 1
  /\ processing_status'[r].messages[Len(processing_status'[r].messages)][1]
       \in SoftKinds

C6_Step ==
  \A r \in Started :
    /\ SoftStep(r) =>
         /\ processing_status[r].status = "processing"
         /\ processing_status'[r].status = "processing"
         /\ IsPrefix(processing_status[r].messages, processing_status'[r].messages)
         /\ pc'[r] = "loop"
         /\ idx'[r] = idx[r] + 1
    /\ (pc'[r] = "done"
          /\ ~HasKind(processing_status'[r].messages, "Error")
          /\ ~HasKind(processing_status'[r].messages, "ZoomTokenFail")) =>
         /\ processing_status'[r].status = "completed"
         /\ processing_status'[r].current = Len(matches'[r])
         /\ KindCount(processing_status'[r].messages, "Processing") = Len(matches'[r])

C6_SoftFailure == [][C6_Step]_vars

\* the first match failed softly, the second was processed, the run completed
C6_Witness ==
  \E r \in Started :
    /\ pc[r] = "done"
    /\ processing_status[r].status = "completed"
    /\ Len(matches[r]) = 2
    /\ Len(processing_status[r].messages) >= 3
    /\ processing_status[r].messages[2][1] \in SoftKinds
    /\ processing_status[r].messages[3][1] = "Processing"


(***************************************************************************)
(* C7. When YouTube is available and the duplicate check of match k finds  *)
(* a video, the worker lists no files, downloads nothing and uploads       *)
(* nothing for match k, logs the identifier of the existing video, and     *)
(* match k is counted in current.                                          *)
(***************************************************************************)
\* the n-th operation of r is a duplicate check that found a video
FoundAt(r, n) ==
  /\ ops[r][n].op = "check"
  /\ ops[r][n].res \in {"cached", "remote"}

\* vid identifies a known video whose title has the normalised key of title
KnownAs(vid, title) ==
  \/ \E v \in remote :
       v.video_id = vid /\ normalize_title(v.title) = normalize_title(title)
  \/ \E j \in 1..Len(cache) :
       /\ cache[j].youtube_video_id = vid
       /\ cache[j].title_normalized = normalize_title(title)

C7_DuplicateSkipped ==
  \A r \in Started : \A n \in 1..Len(ops[r]) :
    FoundAt(r, n) =>
      LET k == ops[r][n].k
          msgs == processing_status[r].messages
      IN  /\ youtube_available[r]
          /\ \A m \in 1..Len(ops[r]) : ops[r][m].k = k => m = n
          /\ processing_status[r].current >= k
          /\ \E j \in 1..Len(msgs) :
               /\ msgs[j][1] = "Exists"
               /\ MatchOfMsg(msgs, j) = k
               /\ msgs[j][2] = EventTitle(matches[r][k])
               /\ KnownAs(msgs[j][3], msgs[j][2])

\* the first of two matches was found on YouTube, the second was then handled
C7_Witness ==
  \E r \in Started :
    /\ Len(ops[r]) >= 2
    /\ FoundAt(r, 1)
    /\ ops[r][1].res = "remote"
    /\ ops[r][2].k = 2
    /\ processing_status[r].current = 2

(***************************************************************************)
(* C8. As claimed: a run of one match whose title has a fresh cache entry  *)
(* completes with exactly one log message, the one noting the existing     *)
(* video, and downloads and uploads nothing.                               *)
(***************************************************************************)
\* the run of one match is over and its duplicate check was a cache hit
OneCachedMatch(r) ==
  /\ pc[r] = "done"
  /\ Len(matches[r]) = 1
  /\ ops[r] # << >>
  /\ ops[r][1] = Op("check", 1, "cached")

C8_Original ==
  \A r \in Started :
    OneCachedMatch(r) =>
      /\ processing_status[r].status = "completed"
      /\ Len(processing_status[r].messages) = 1
      /\ processing_status[r].messages[1][1] = "Exists"
      /\ Len(ops[r]) = 1

(***************************************************************************)
(* C8, amended. A duplicate check made while the cache holds a fresh entry *)
(* for the title is answered from the cache (unless the database query     *)
(* fails), and a run of one match whose check was a cache hit completes    *)
(* with exactly two log messages: the Processing message of the match and  *)
(* then the one noting the existing video; it downloads and uploads        *)
(* nothing.                                                                *)
(***************************************************************************)
\* r is about to check a title for which the cache holds a fresh entry
FreshEntryFor(r) ==
  /\ pc[r] = "check"
  /\ CHECK_EXISTING_VIDEOS
  /\ LET k == FirstByNorm(cache, normalize_title(CurTitle(r)))
     IN  k # 0 /\ now - cache[k].last_updated < youtube_cache_hours

C8_Step ==
  \A r \in Started :
    /\ (FreshEntryFor(r) /\ ops'[r] # ops[r]) =>
         ops'[r][Len(ops'[r])].res \in {"cached", "raised"}
    /\ OneCachedMatch(r)' =>
         /\ processing_status'[r].status = "completed"
         /\ Len(processing_status'[r].messages) = 2
         /\ processing_status'[r].messages[1] =
              Msg("Processing", EventTitle(matches'[r][1]), "")
         /\ processing_status'[r].messages[2][1] = "Exists"
         /\ processing_status'[r].messages[2][2] = EventTitle(matches'[r][1])
         /\ \E j \in 1..Len(cache') :
              /\ cache'[j].youtube_video_id = processing_status'[r].messages[2][3]
              /\ cache'[j].title_normalized =
                   normalize_title(EventTitle(matches'[r][1]))
         /\ Len(ops'[r]) = 1

C8_CachedDuplicate == [][C8_Step]_vars

\* such a run has completed
C8_Witness ==
  \E r \in Started :
    /\ OneCachedMatch(r)
    /\ processing_status[r].status = "completed"
    /\ matches[r][1].name = <<"A", "!">>

(***************************************************************************)
(* C9. The matches of a run are handled in the order submitted, one at a   *)
(* time, and the log is append-only: each log a poll observes is a prefix  *)
(* of every later one, and the messages of a match are in the order of     *)
(* its pipeline steps.                                                     *)
(***************************************************************************)
\* the kinds of the messages of match k, in log order
RECURSIVE KindsOfMatch(_, _, _)
KindsOfMatch(msgs, k, j) ==
  IF j > Len(msgs) THEN << >>
  ELSE IF MatchOfMsg(msgs, j) = k /\ msgs[j][1] # "Error"
       THEN <<msgs[j][1]>> \o KindsOfMatch(msgs, k, j + 1)
       ELSE KindsOfMatch(msgs, k, j + 1)

\* the orders in which the steps of one match can log
StepOrders ==
  { <<"Processing">>, <<"Processing", "Exists">>, <<"Processing", "NoFiles">>,
    <<"Processing", "NoMP4">>, <<"Processing", "DownloadFailed">>,
    <<"Processing", "Downloaded">>, <<"Processing", "Downloaded", "Uploaded">>,
    <<"Processing", "Downloaded", "UploadFailed">> }

C9_Step ==
  \A r \in Started :
    LET msgs == processing_status[r].messages
        msgs2 == processing_status'[r].messages
    IN  /\ IsPrefix(msgs, msgs2)
        /\ IsPrefix(ops[r], ops'[r])
        /\ (IsJob(lastPoll[r]) /\ IsJob(lastPoll'[r])) =>
             IsPrefix(lastPoll[r].messages, lastPoll'[r].messages)
        \* the operations and messages added belong to the current match
        /\ \A n \in (Len(ops[r]) + 1)..Len(ops'[r]) :
             ops'[r][n].k = processing_status[r].current
        /\ \A j \in (Len(msgs) + 1)..Len(msgs2) :
             msgs2[j][2] # << >> =>
               /\ MatchOfMsg(msgs2, j) = processing_status[r].current
               /\ msgs2[j][2] = EventTitle(matches[r][processing_status[r].current])
        \* the current match moves one forward at a time
        /\ processing_status'[r].current \in
             { processing_status[r].current, processing_status[r].current + 1 }
        \* the messages of each match follow the order of its steps
        /\ msgs2 # msgs =>
             /\ \A k \in 1..Len(matches[r]) :
                  KindsOfMatch(msgs2, k, 1) \in StepOrders \cup { << >> }
             /\ \A k \in 1..processing_status'[r].current - 1 :
                  KindsOfMatch(msgs2, k, 1) # << >>

C9_OrderedAppendOnly == [][C9_Step]_vars

\* a poll saw a log that has since grown, and both matches were worked on
C9_Witness ==
  \E r \in Started :
    /\ IsJob(lastPoll[r])
    /\ Len(lastPoll[r].messages) >= 2
    /\ Len(processing_status[r].messages) > Len(lastPoll[r].messages) + 1
    /\ \E n \in 1..Len(ops[r]) : ops[r][n].k = 1
    /\ \E n \in 1..Len(ops[r]) : ops[r][n].k = 2

(***************************************************************************)
(* C10. If YouTube is not available when the run starts, exactly one       *)
(* message says so, it is the first of the log, no upload is attempted for *)
(* any match, and availability is not evaluated again during the run.      *)
(***************************************************************************)
\* the worker has evaluated youtube_available
AuthDone(r) ==
  \/ pc[r] \in {"loop", "resolve", "check", "files", "download", "upload", "excmsg"}
  \/ pc[r] = "done" /\ ~HasKind(processing_status[r].messages, "ZoomTokenFail")

C10_Step ==
  \A r \in Started :
    /\ (AuthDone(r)' /\ ~youtube_available'[r]) =>
         /\ processing_status'[r].messages # << >>
         /\ processing_status'[r].messages[1] = Msg("YouTubeNotAuth", <<>>, "")
         /\ KindCount(processing_status'[r].messages, "YouTubeNotAuth") = 1
         /\ \A n \in 1..Len(ops'[r]) :
              ops'[r][n].op \notin {"upload_video", "insert"}
    /\ (AuthDone(r)' /\ youtube_available'[r]) =>
         ~HasKind(processing_status'[r].messages, "YouTubeNotAuth")
    /\ AuthDone(r) => youtube_available'[r] = youtube_available[r]

C10_YouTubeUnavailable == [][C10_Step]_vars

\* a run without YouTube downloaded a recording and ended, and the
\* credentials had become valid while it ran
C10_Witness ==
  \E r \in Started :
    /\ pc[r] = "done"
    /\ AuthDone(r)
    /\ ~youtube_available[r]
    /\ credsValid
    /\ Len(matches[r]) = 2
    /\ KindCount(processing_status[r].messages, "Downloaded") = 2


(***************************************************************************)
(* C11. Once submitted, every run whose worker keeps being scheduled and   *)
(* whose remote calls return reaches a terminal status; when its worker    *)
(* has ended, the status is completed exactly when every match was started *)
(* and neither the Zoom token was missing nor an exception was raised.     *)
(***************************************************************************)
Ended(r) ==
  /\ r \in Started
  /\ pc[r] = "done"
  /\ processing_status[r].status \in Terminal

\* every match was taken up and nothing fatal is in the log
AllHandled(r) ==
  LET msgs == processing_status[r].messages
  IN  /\ KindCount(msgs, "Processing") = processing_status[r].total
      /\ ~HasKind(msgs, "Error")
      /\ ~HasKind(msgs, "ZoomTokenFail")

C11_Outcome ==
  \A r \in Started :
    /\ processing_status[r].status = "completed" => pc[r] = "done"
    /\ pc[r] = "done" =>
         (processing_status[r].status = "completed" <=> AllHandled(r))

C11_EventuallyTerminal ==
  /\ \A r \in Runs : (pc[r] # "idle") ~> Ended(r)
  /\ []C11_Outcome

C11_Witness ==
  \E r \in Started :
    /\ Ended(r)
    /\ processing_status[r].status = "completed"
    /\ processing_status[r].total = MaxMatches

(***************************************************************************)
(* C12. A poll of an identifier the tracker does not hold returns the      *)
(* not-found result, not an error, and leaves the tracker as it was.       *)
(***************************************************************************)
C12_Step ==
  \A r \in Runs :
    (r \notin Started /\ lastPoll'[r] # lastPoll[r]) =>
      /\ lastPoll'[r] = NotFound
      /\ processing_status' = processing_status

C12_UnknownNotFound == [][C12_Step]_vars

C12_Witness ==
  \E r \in Runs : r \notin Started /\ lastPoll[r] = NotFound

(***************************************************************************)
(* C13. Once submit has returned a run identifier, every poll of that      *)
(* identifier returns the job and never the not-found result.              *)
(***************************************************************************)
C13_Step ==
  \A r \in Runs :
    (pc[r] # "idle" /\ submit_result.session_id = r /\ lastPoll'[r] # lastPoll[r])
      => IsJob(lastPoll'[r])

C13_CreatedAtSubmission == [][C13_Step]_vars

(***************************************************************************)
(* C14. Invalid input is rejected in the request: a submission with an     *)
(* empty match list, and a candidate query whose date is missing or does   *)
(* not parse, are answered 400; no session id is given, no worker is       *)
(* started, no tracker entry is added and Eventbrite is not called.        *)
(***************************************************************************)
C14_Step ==
  /\ (submit_result' # submit_result /\ submit_result'.code # 200) =>
       /\ submit_result' = [code |-> 400, session_id |-> 0]
       /\ UNCHANGED << processing_status, workerVars >>
  /\ (events_pc = "idle" /\ eventVars' # eventVars
                         /\ eventbrite_call'.result = "none") =>
       /\ events_result'.code = 400
       /\ events_result'.events = << >>
       /\ events_pc' = "idle"
       /\ UNCHANGED << processing_status, workerVars, youtubeVars >>

C14_State ==
  /\ \A r \in Runs : pc[r] # "idle" => matches[r] # << >>
  /\ eventbrite_call.result # "none" => ParsesAsDate(eventbrite_call.date)

C14_InvalidRejected == [][C14_Step]_vars /\ []C14_State

C14_Witness ==
  /\ submit_result = [code |-> 400, session_id |-> 0]
  /\ events_result.code = 400
  /\ events_result.error = "Invalid date format"
  /\ Started = {}
  /\ \A r \in Runs : pc[r] = "idle"

(***************************************************************************)
(* C15. A poll that runs while the worker does returns the entry as it was *)
(* before or after a whole update of the worker: a snapshot whose status   *)
(* is error ends with the message of that error.                           *)
(***************************************************************************)
C15_ConsistentSnapshot ==
  \A r \in Runs :
    (IsJob(lastPoll[r]) /\ lastPoll[r].status = "error") =>
      /\ lastPoll[r].messages # << >>
      /\ lastPoll[r].messages[Len(lastPoll[r].messages)][1]
           \in {"Error", "ZoomTokenFail"}

(***************************************************************************)
(* C16. With duplicate checking configured, a lookup (the check of the     *)
(* loop, or the one upload_video makes) that finds a row for the title's   *)
(* key younger than youtube_cache_hours makes no remote search and reports *)
(* that row, leaving the table as it was; one that finds a row as old as   *)
(* that or older makes the remote search. Either ends without a result if  *)
(* the query of the table raises.                                          *)
(***************************************************************************)
\* how the lookup made in this step by worker r ended
LookupRes(r) == ops'[r][Len(ops[r]) + 1].res

C16_Step ==
  \A r \in Runs :
    (pc[r] \in {"check", "upload"} /\ ops'[r] # ops[r] /\ CHECK_EXISTING_VIDEOS) =>
      LET k == FirstByNorm(cache, normalize_title(CurTitle(r)))
      IN  k # 0 =>
            IF now - cache[k].last_updated < youtube_cache_hours
            THEN /\ LookupRes(r) \in {"cached", "raised"}
                 /\ LookupRes(r) = "cached" =>
                      /\ cache' = cache
                      /\ pc[r] = "check" =>
                           LET msgs == processing_status'[r].messages
                           IN  msgs[Len(msgs)] =
                                 Msg("Exists", CurTitle(r), cache[k].youtube_video_id)
            ELSE LookupRes(r) \in {"remote", "none", "raised"}

C16_Freshness == [][C16_Step]_vars

\* the same title looked up twice: answered from the table, then, the row
\* having aged, by a remote search
C16_Witness ==
  \E r \in Started :
    /\ Len(matches[r]) = 2
    /\ matches[r][1] = matches[r][2]
    /\ Len(ops[r]) >= 2
    /\ ops[r][1] = Op("check", 1, "cached")
    /\ ops[r][2].op = "check"
    /\ ops[r][2].res \in {"remote", "none"}

(***************************************************************************)
(* C17. The annotation of an event in the candidate query names a video    *)
(* only if the video's title and the event's title have the same           *)
(* normalised key, and it names one whenever the table holds a fresh row   *)
(* for that key (duplicate checking configured, YouTube authenticated and  *)
(* the query of the table succeeding).                                     *)
(***************************************************************************)
\* the handler annotates its next event in this step
Annotates == events_pc = "annotate" /\ events_i' = events_i + 1

C17_Step ==
  Annotates =>
    LET t == EventName(events[events_i + 1])
        e == events'[events_i + 1]
        k == FirstByNorm(cache, normalize_title(t))
    IN  /\ e.youtube_exists =>
             normalize_title(e.youtube_video.title) = normalize_title(t)
        /\ (CHECK_EXISTING_VIDEOS /\ k # 0
               /\ now - cache[k].last_updated < youtube_cache_hours) =>
             /\ e.youtube_exists
             /\ e.youtube_video.video_id = cache[k].youtube_video_id

C19_AllOrNothing ==
  eventbrite_call.result = "failed" => events_result.code # 200

(***************************************************************************)
(* C18. normalize_title is idempotent: given its own result, it returns    *)
(* that result.                                                            *)
(***************************************************************************)
C18_Idempotent ==
  norm_pc = "called" => normalize_title(norm_out) = norm_out

\* a title that normalisation changes in each of its four ways
C18_Witness ==
  /\ norm_pc = "called"
  /\ norm_in = << " ", "A", "!", "\t" >>
  /\ norm_out = << "a" >>

(***************************************************************************)
(* C20. Two submissions of the same match are independent: each is given a *)
(* session id that was not in use, a thread and a tracker entry of its own; *)
(* a submission is accepted and a worker has its next step whatever the    *)
(* other run is doing, so both can run at once; a worker writes only its   *)
(* own entry; and both runs reach a terminal status.                       *)
(***************************************************************************)
Running(r) == pc[r] \notin {"idle", "done"}

C20_State ==
  /\ (\E r \in ConcRuns : pc[r] = "idle") => ENABLED Submit(<< SameMatch >>)
  /\ \A r \in ConcRuns :
       /\ Running(r) => ENABLED Worker(r)
       /\ (pc[r] \notin {"idle", "start"}) =>
            /\ r \in Started
            /\ processing_status[r].total = Len(matches[r])

C20_Step ==
  /\ submit_result' # submit_result =>
       LET r == submit_result'.session_id
       IN  /\ submit_result'.code = 200
           /\ pc[r] = "idle" /\ pc'[r] = "start"
           /\ \A q \in ConcRuns \ {r} : pc'[q] = pc[q] /\ matches'[q] = matches[q]
           /\ processing_status' = processing_status
  /\ \A r \in ConcRuns :
       (pc'[r] # pc[r] /\ pc[r] # "idle") =>
         \A q \in ConcRuns \ {r} :
           /\ pc'[q] = pc[q]
           /\ q \in Started => (q \in DOMAIN processing_status'
                                  /\ processing_status'[q] = processing_status[q])

C21_Unique ==
  \A i, j \in 1..Len(cache) :
    cache[i].youtube_video_id = cache[j].youtube_video_id => i = j

\* the call of w commits in this step
Commits(w) == cv_pc[w] = "commit" /\ cv_pc'[w] = "idle"

\* what w loaded is what the table holds: no other call has come between
Undisturbed(w) ==
  LET k == FirstById(cache, youtube_item[w].video_id)
  IN  existing[w] = IF k = 0 THEN NoRow ELSE cache[k]

C21_Step ==
  \A w \in Writers :
    (Commits(w) /\ Undisturbed(w)) =>
      LET item == youtube_item[w]
          k == FirstById(cache, item.video_id)
          res == cv_log'[Len(cv_log')].res
      IN  /\ res \in {"updated", "inserted", "db_error"}
          /\ res = "db_error" => cache' = cache
          /\ res = "updated" =>
               /\ k # 0
               /\ cache' = [cache EXCEPT ![k] = RowOf(item, now)]
          /\ res = "inserted" =>
               /\ k = 0
               /\ cache' = Append(cache, RowOf(item, now))

C21_Upsert == []C21_Unique /\ [][C21_Step]_vars

\* a video stored, then stored again under another title, then a second one
C21_Witness ==
  /\ Len(cv_log) = 3
  /\ cv_log[1].res = "inserted"
  /\ cv_log[2].res = "updated"
  /\ cv_log[3].res = "inserted"
  /\ cv_log[2].item.title # cv_log[1].item.title
  /\ cache = << RowOf(cv_log[2].item, cv_log[2].at),
                RowOf(cv_log[3].item, cv_log[3].at) >>

(***************************************************************************)
(* C22. When no call of _cache_video is running, the table holds exactly   *)
(* one row for the id of the call that ended last, and unless the database *)
(* failed that call for another reason than the id, the row has the fields *)
(* that call wrote.                                                        *)
(***************************************************************************)
C22_LastWriterWins ==
  ((\A w \in Writers : cv_pc[w] = "idle") /\ cv_log # << >>) =>
    LET e == cv_log[Len(cv_log)]
        k == FirstById(cache, e.item.video_id)
    IN  e.res # "db_error" =>
          /\ k # 0
          /\ cache[k] = RowOf(e.item, e.at)

(***************************************************************************)
(* C23. The normalised title of every row of the table is normalize_title  *)
(* of the title of that row.                                               *)
(***************************************************************************)
C23_NormalizedInSync ==
  \A k \in 1..Len(cache) :
    cache[k].title_normalized = normalize_title(cache[k].title)

(***************************************************************************)
(* C24. The step in which a run logs a successful upload leaves the new    *)
(* video id in the log and a row of that id in the table, and, the         *)
(* duplicate check being enabled, that row is the one a lookup of the      *)
(* uploaded title finds and it is younger than the cache window, so that   *)
(* the lookup answers from the table without a search.                     *)
(***************************************************************************)
\* r logs an upload that succeeded in this step
Publishes(r) ==
  /\ pc[r] = "upload"
  /\ Len(processing_status'[r].messages) = Len(processing_status[r].messages) + 1
  /\ processing_status'[r].messages[Len(processing_status'[r].messages)][1] = "Uploaded"

C24_Step ==
  \A r \in Runs :
    Publishes(r) =>
      LET m == processing_status'[r].messages[Len(processing_status'[r].messages)]
          k == FirstByNorm(cache', normalize_title(CurTitle(r)))
      IN  /\ m = Msg("Uploaded", CurTitle(r), VidName(nextVid'))
          /\ FirstById(cache', m[3]) # 0
          /\ CHECK_EXISTING_VIDEOS =>
               /\ k # 0
               /\ cache'[k].youtube_video_id = m[3]
               /\ IsFresh(cache'[k], now')

C24_PublishCached == [][C24_Step]_vars

(***************************************************************************)
(* C25. The file a run downloads is the first file of the meeting's list   *)
(* whose type is MP4 in either case. When the list is empty or has no such *)
(* file, the step logs the message for that case and goes to the next      *)
(* match: the match gets no download and no upload, and the run can end    *)
(* completed.                                                              *)
(***************************************************************************)
\* the operations r made for its match k after listing the files
AfterList(r, k) ==
  { n \in 1..Len(ops[r]) :
      ops[r][n].k = k /\ ops[r][n].op \in {"download", "upload_video", "insert"} }

\* match k of r got one of the two messages for a list without a video
NoVideoFound(r, k) ==
  \E j \in 1..Len(processing_status[r].messages) :
    /\ processing_status[r].messages[j][1] \in {"NoFiles", "NoMP4"}
    /\ MatchOfMsg(processing_status[r].messages, j) = k

C25_Step ==
  \A r \in Runs :
    (pc[r] = "files" /\ pc'[r] # "files") =>
      LET msgs == processing_status'[r].messages
          files == recording_files'[r]
          mp4 == { n \in 1..Len(files) : IsMP4(files[n]) }
      IN  IF mp4 # {}
          THEN /\ pc'[r] = "download"
               /\ processing_status'[r] = processing_status[r]
               /\ \E n \in mp4 :
                    /\ \A j \in mp4 : n <= j
                    /\ video_file'[r] = files[n]
          ELSE /\ pc'[r] = "loop"
               /\ msgs = Append(processing_status[r].messages,
                                Msg(IF files = << >> THEN "NoFiles" ELSE "NoMP4",
                                    CurTitle(r), ""))
               /\ idx'[r] = idx[r] + 1
               /\ video_file'[r] = NoFile

C25_State ==
  \A r \in Started : \A k \in 1..Len(matches[r]) :
    NoVideoFound(r, k) => AfterList(r, k) = {}

C25_FirstMP4 == []C25_State /\ [][C25_Step]_vars

\* a run whose only match had files but no MP4 has completed
C25_Witness ==
  \E r \in Started :
    /\ processing_status[r].status = "completed"
    /\ processing_status[r].total = 1
    /\ NoVideoFound(r, 1)
    /\ recording_files[r] # << >>
    /\ HasKind(processing_status[r].messages, "NoMP4")

(***************************************************************************)
(* C26. normalize_title returns the reference key of its input: the input  *)
(* lower-cased, without the characters that are neither a letter, a digit  *)
(* nor whitespace, with each run of whitespace made one space, and without *)
(* leading or trailing whitespace; the empty input gives the empty key.    *)
(***************************************************************************)
IsLetterOrDigit(c) == c \in UpperChars \cup LowerChars \cup DigitChars

ReferenceKept(c) == IsLetterOrDigit(c) \/ IsSpace(c)

ReferenceKey(text) ==
  Strip(CollapseSpace(SelectSeq(LowerStr(text), ReferenceKept)))

C26_Reference ==
  norm_pc = "called" => norm_out = ReferenceKey(norm_in)

(***************************************************************************)
(* C27. In an answer of get_events every event has the key youtube_exists. *)
(* When YouTube is authenticated, each event's title is looked up once and *)
(* youtube_exists is true exactly when the lookup returned a video, which  *)
(* is then attached as youtube_video. When it is not, no lookup is made,   *)
(* the table is untouched, and every event has youtube_exists false and    *)
(* youtube_video None.                                                     *)
(***************************************************************************)
\* get_events answers in this step without having entered the loop
AnswersUnchecked ==
  /\ events_pc = "idle"
  /\ events_pc' = "idle"
  /\ eventbrite_call' # NoCall
  /\ << events_result, eventbrite_call >>' # << events_result, eventbrite_call >>

C27_Step ==
  /\ (events_pc = "idle" /\ events_pc' = "annotate") =>
       /\ GetService(service)
       /\ \A n \in 1..Len(events') : events'[n].check = "" /\ ~events'[n].has_exists
  /\ AnswersUnchecked =>
       /\ ~GetService(service)
       /\ cache' = cache
       /\ events_result'.code = 200
       /\ \A n \in 1..Len(events_result'.events) :
            LET e == events_result'.events[n]
            IN  /\ e.check = ""
                /\ e.has_exists /\ ~e.youtube_exists
                /\ e.has_video /\ e.youtube_video = NoVideo
  /\ Annotates =>
       LET e == events'[events_i + 1]
       IN  /\ \E co \in CheckExisting(EventName(events[events_i + 1]), service) :
                /\ ~co.raised
                /\ cache' = co.cache
                /\ e.has_exists
                /\ e.youtube_exists = (co.video # NoVideo)
                /\ e.has_video = (co.video # NoVideo)
                /\ e.youtube_video = co.video
                /\ e.check = CheckRes(co)
           /\ \A n \in 1..Len(events) : n # events_i + 1 => events'[n] = events[n]

\* every event of an answer is annotated as its lookup ended, or unchecked
C27_State ==
  (events_result.code = 200 /\ eventbrite_call # NoCall) =>
    \A n \in 1..Len(events_result.events) :
      LET e == events_result.events[n]
      IN  /\ e.has_exists
          /\ e.check # "" =>
               /\ e.youtube_exists = (e.check \in {"cached", "remote"})
               /\ e.has_video = e.youtube_exists
               /\ e.youtube_exists = (e.youtube_video # NoVideo)
          /\ e.check = "" => ~e.youtube_exists /\ e.youtube_video = NoVideo

C27_Annotation == []C27_State /\ [][C27_Step]_vars

\* an answer of the authenticated branch with one event found and one not
C27_Witness ==
  /\ events_result.code = 200
  /\ Len(events_result.events) = 2
  /\ events_result.events[1].check = "cached"
  /\ events_result.events[1].youtube_exists
  /\ events_result.events[1].youtube_video.video_id = "v0"
  /\ events_result.events[2].check = "none"
  /\ ~events_result.events[2].youtube_exists
  /\ ~events_result.events[2].has_video

\* an answer made while YouTube was not authenticated
C27_WitnessUnchecked ==
  /\ events_result.code = 200
  /\ Len(events_result.events) = 2
  /\ \A n \in 1..2 : events_result.events[n].check = ""
                       /\ events_result.events[n].has_exists

(***************************************************************************)
(* C28. In a run that checks for duplicates, when two matches have titles  *)
(* of the same normalised key and the recording of the earlier one was     *)
(* uploaded, the later one goes no further than its duplicate check: no    *)
(* files are listed, nothing is downloaded and nothing is uploaded for it. *)
(***************************************************************************)
\* the log of r has the message of a successful upload for its match k
UploadedMatch(r, k) ==
  \E j \in 1..Len(processing_status[r].messages) :
    /\ processing_status[r].messages[j][1] = "Uploaded"
    /\ MatchOfMsg(processing_status[r].messages, j) = k

C28_OneUploadPerTitle ==
  \A r \in Started : \A k1, k2 \in 1..Len(matches[r]) :
    ( /\ k1 < k2
      /\ CHECK_EXISTING_VIDEOS
      /\ youtube_available[r]
      /\ matches[r][k2].has_meeting
      /\ normalize_title(EventTitle(matches[r][k1])) =
           normalize_title(EventTitle(matches[r][k2]))
      /\ UploadedMatch(r, k1) ) =>
        \A n \in 1..Len(ops[r]) : ops[r][n].k = k2 => ops[r][n].op = "check"

(***************************************************************************)
(* C29. upload_video checks for an existing video again before it sends:   *)
(* when that check finds one, in the table or by the search, also when the *)
(* check of the loop had found none, no upload is sent, the run logs the   *)
(* failure 'Video already exists' for the match and goes on to the next    *)
(* match.                                                                  *)
(***************************************************************************)
\* the check inside upload_video finds a video in this step of r
Rechecks(r) ==
  /\ pc[r] = "upload"
  /\ Len(ops'[r]) > Len(ops[r])
  /\ ops'[r][Len(ops[r]) + 1].op = "upload_video"
  /\ ops'[r][Len(ops[r]) + 1].res \in {"cached", "remote"}

\* the table has a row for the title of r's match that a lookup would use
FreshRowFor(r) ==
  /\ CHECK_EXISTING_VIDEOS
  /\ LET k == FirstByNorm(cache, normalize_title(CurTitle(r)))
     IN  k # 0 /\ IsFresh(cache[k], now)

C29_Step ==
  \A r \in DOMAIN pc :
    /\ Rechecks(r) =>
         /\ Len(ops'[r]) = Len(ops[r]) + 1
         /\ remote' = remote
         /\ nextVid' = nextVid
         /\ processing_status'[r].messages =
              Append(processing_status[r].messages,
                     Msg("UploadFailed", CurTitle(r), "Video already exists"))
         /\ processing_status'[r].status = "processing"
         /\ pc'[r] = "loop"
         /\ idx'[r] = idx[r] + 1
    /\ (pc[r] = "upload" /\ FreshRowFor(r) /\ ops'[r] # ops[r]) =>
         /\ ops'[r][Len(ops[r]) + 1].res \in {"cached", "raised"}
         /\ Len(ops'[r]) = Len(ops[r]) + 1

WindowsOf(n) ==
  { i \in 1..Len(zoom_queries) : zoom_queries[i].from <= n /\ n <= zoom_queries[i].to }

\* the meetings with recording files of the answers 1..i, in order
RECURSIVE WithFiles(_)
WithFiles(i) ==
  IF i = 0 THEN << >>
  ELSE WithFiles(i - 1) \o
         (IF zoom_queries[i].response.status_code = 200
          THEN SelectSeq(zoom_queries[i].response.meetings, HasFiles)
          ELSE << >>)

C30_State ==
  /\ gr_pc \in {"loop", "returned"} =>
       /\ \A i \in 1..Len(zoom_queries) :
            LET q == zoom_queries[i]
            IN  /\ q.from = IF i = 1 THEN start_dt ELSE zoom_queries[i - 1].to + 1
                /\ q.from <= q.to
                /\ q.to - q.from <= chunk_size
                /\ q.to <= end_dt
       /\ recordings = WithFiles(Len(zoom_queries))
       /\ \A j \in 1..Len(recordings) : HasFiles(recordings[j])
  /\ gr_pc = "returned" =>
       /\ \A n \in start_dt..end_dt : Cardinality(WindowsOf(n)) = 1
       /\ start_dt > end_dt => zoom_queries = << >> /\ RecordingsReturned = << >>
       /\ RecordingsReturned = WithFiles(Len(zoom_queries))

C30_Windows ==
  /\ []C30_State
  /\ (gr_pc = "loop") ~> (gr_pc \in {"returned", "failed"})

\* a range of three windows, the first of the full length, was returned
\* with a meeting that has files; one answer had a meeting without files
C30_Witness ==
  /\ gr_pc = "returned"
  /\ Len(zoom_queries) = 3
  /\ zoom_queries[1].to - zoom_queries[1].from = chunk_size
  /\ zoom_queries[3].to = end_dt
  /\ Len(recordings) = 1
  /\ \E i \in 1..3 : \E j \in 1..Len(zoom_queries[i].response.meetings) :
       ~HasFiles(zoom_queries[i].response.meetings[j])

\* the start is after the end: returned at once
C30_WitnessEmpty ==
  /\ gr_pc = "returned"
  /\ start_dt > end_dt
  /\ zoom_queries = << >>

====
